---- MODULE Spec2Model ----
(***************************************************************************)
(* IdleSpy tracker: the GoroutineManager registry (tracker/types.go,       *)
(* tracker/goroutine_manager.go), its RWMutex, its WaitGroup and the       *)
(* goroutines that call into it.                                           *)
(*                                                                         *)
(* Granularity.  A critical section of gm.mu is split wherever another     *)
(* party can observe it without taking gm.mu: the WaitGroup counter (seen  *)
(* by Wg.Wait) and the fields of a *GoroutineStats / *SelectStats that a   *)
(* holder of the map returned by GetAllStats reads through its pointers.   *)
(* Each read-modify-write of AddLatency is split between its load and its  *)
(* store, so that mutual exclusion is what keeps the updates from being    *)
(* lost.                                                                   *)
(***************************************************************************)
EXTENDS Integers, Sequences, FiniteSets, TLC

\* ------------------------------------------------------------------ bounds
NumGoroutines == 2
MaxCalls == 2
MaxLatency == 1
MaxClock == 2
MaxTimeCalls == 3
MaxSamples == 4
MaxLongSamples == 13

\* ------------------------------------------------- constants of the program
\* latency1, latency2 of TestConcurrentTracking, in milliseconds
Latency1 == 50
Latency2 == 100

Goroutines == 1..NumGoroutines
Cases == {"case1", "case2"}
Durations == 0..MaxLatency

\* a nil pointer / a missing map entry
Nil == 0

\* ---------------------------------------------------------------- data model
\* an absent entry of GoroutineStats.SelectStats
NoSelectStats ==
    [present |-> FALSE, BlockedCaseTime |-> 0, CaseHits |-> 0, latencies |-> <<>>]

\* an accumulator that is created but not stored in the record's map
NewSelectStats_NotStored == NoSelectStats

\* &SelectStats{}
NewSelectStats ==
    [present |-> TRUE, BlockedCaseTime |-> 0, CaseHits |-> 0, latencies |-> <<>>]

\* a heap cell that holds no GoroutineStats yet
NoGoroutineStats ==
    [GoroutineId |-> Nil, StartTime |-> 0, EndTime |-> 0,
     SelectStats |-> [c \in Cases |-> NoSelectStats]]

\* a record whose StartTime is taken after its creation
NewGoroutineStats_StampedLate(id, t) ==
    [GoroutineId |-> id, StartTime |-> t + 1, EndTime |-> 0,
     SelectStats |-> [c \in Cases |-> NoSelectStats]]

\* &GoroutineStats{GoroutineId: id, SelectStats: make(map...), StartTime: time.Now()}
NewGoroutineStats(id, t) ==
    [GoroutineId |-> id, StartTime |-> t, EndTime |-> 0,
     SelectStats |-> [c \in Cases |-> NoSelectStats]]

\* the locals of a call in progress
NoOp == [id |-> Nil, caseName |-> "", d |-> 0, exists |-> FALSE, lat |-> <<>>, n |-> 0]

\* nothing read through the snapshot yet
NoObs == [seen |-> FALSE, BlockedCaseTime |-> 0, CaseHits |-> 0, latencies |-> <<>>]

\* the Action constants of types.go
PrintAndSave == "print_and_save"
Save == "save"
PrintOnly == "print"
None == "none"

\* the files the exporters create: title ".visualization" + ".txt", ".internal" + ".json"
VisualizationTxt == ".visualization.txt"
InternalJson == ".internal.json"
FileNames == {VisualizationTxt, InternalJson}

\* a JSON object with no key
EmptyObject == [k \in {} |-> 0]

\* the object tree of a JSONStats that holds no goroutine: what .internal.json
\* stands for while no exporter has written it
NoDocument == [title |-> "", goroutines |-> EmptyObject]

\* the owner has not been returned anything yet
NoRet == [call |-> "", arg |-> Nil, err |-> FALSE, val |-> Nil]

\* the elements of a sequence
Range(lat) == {lat[i] : i \in 1..Len(lat)}

RECURSIVE SumSeq(_)
SumSeq(s) == IF s = <<>> THEN 0 ELSE Head(s) + SumSeq(Tail(s))

VARIABLES
    Stats,      \* gm.Stats: GoroutineId -> *GoroutineStats (Nil: no entry)
    heap,       \* the GoroutineStats objects, by address
    mu,         \* gm.mu: the goroutine holding the write lock, Nil when free
    wg,         \* gm.Wg: the WaitGroup counter
    panicked,   \* the process died of an unrecovered panic
    clock,      \* the reading of the wall clock (0 is the zero time.Time)
    pc,         \* each goroutine's position
    op,         \* each goroutine's locals of its call in progress
    calls,      \* the position of each goroutine in the documented script
    ncalls,     \* number of tracker calls made by the free clients
    mainPc,     \* the position of the goroutine that owns the manager
    preAdd,     \* what the owner passed to gm.Wg.Add before spawning
    snapTaken,  \* GetAllStats has returned to the owner
    snap,       \* the map GetAllStats returned: GoroutineId -> *GoroutineStats
    snapAt,     \* history: what the snapshot's pointers led to when it was taken
    obs,        \* what the owner last read through the snapshot
    returned,   \* history: TrackSelectCase calls that returned, per (id, case)
    recorders,  \* history: the goroutines whose TrackSelectCase calls returned
    started,    \* history: ids TrackGoroutineStart has returned
    atDone,     \* history: the ids that had started when the owner called Done
    FileType,   \* gm.FileType
    Action,     \* gm.Action
    files,      \* the export files on disk: name -> "none" | "empty" | "written"
    doc,        \* the JSON text last written to .internal.json, as its object tree
    ret         \* the value the owner's last call returned

registry == <<Stats, heap, mu, wg, panicked, clock>>
workers == <<pc, op>>
script == <<calls, ncalls>>
owner == <<mainPc, preAdd, snapTaken, snap, snapAt, obs, atDone>>
history == <<returned, recorders, started>>
export == <<FileType, Action, files, doc, ret>>
vars == <<Stats, heap, mu, wg, panicked, clock, pc, op, calls, ncalls,
          mainPc, preAdd, snapTaken, snap, snapAt, obs, returned, recorders, started,
          atDone, FileType, Action, files, doc, ret>>

\* NewGoroutineManager: an empty Stats map, and nobody has called anything yet
EmptyRegistry ==
    /\ Stats = [i \in Goroutines |-> Nil]
    /\ heap = [a \in Goroutines |-> NoGoroutineStats]
    /\ returned = [i \in Goroutines |-> [c \in Cases |-> [n |-> 0, sum |-> 0]]]

\* nobody holds the lock, nobody is inside a call, nothing was configured or returned
Quiet ==
    /\ mu = Nil
    /\ wg = 0
    /\ panicked = FALSE
    /\ clock = 1
    /\ pc = [p \in Goroutines |-> "idle"]
    /\ op = [p \in Goroutines |-> NoOp]
    /\ calls = [p \in Goroutines |-> 0]
    /\ ncalls = 0
    /\ mainPc = "init"
    /\ preAdd = 0
    /\ snapTaken = FALSE
    /\ snap = [i \in Goroutines |-> Nil]
    /\ snapAt = [i \in Goroutines |-> NoGoroutineStats]
    /\ obs = NoObs
    /\ recorders = {}
    /\ started = {}
    /\ atDone = {}
    /\ FileType = ""
    /\ Action = ""
    /\ files = [f \in FileNames |-> "none"]
    /\ doc = NoDocument
    /\ ret = NoRet

Init == EmptyRegistry /\ Quiet

\* ------------------------------------------------------------------ helpers
\* runtime goroutine id of the caller: unique and positive per goroutine
getGoroutineID(p) == p

\* time.Now(): the current reading of the clock
Now == clock

\* a lock that excludes nobody
CanLock_NoExclusion == TRUE

\* gm.mu.Lock() can be taken: nobody holds the lock
CanLock == mu = Nil

\* gm.mu.RLock() can be taken: no writer holds the lock
CanRLock == mu = Nil

\* the record gm.Stats[id] points to
Deref(ptr) == IF ptr = Nil THEN NoGoroutineStats ELSE heap[ptr]

\* the accumulator of (id, c) in the registry
Acc(id, c) == Deref(Stats[id]).SelectStats[c]

\* the three statements of AddLatency
AppendLatency(lat, d) == Append(lat, d)
\* "=" written for "+="
AddBlockedCaseTime_Assign(t, d) == d

AddBlockedCaseTime(t, d) == t + d
IncCaseHits(n) == n + 1

\* SelectStats.GetCaseHits, GetCaseTime, GetAverage
GetCaseHits(ss) == ss.CaseHits
GetCaseTime(ss) == ss.BlockedCaseTime
GetAverage(ss) == ss.BlockedCaseTime \div ss.CaseHits

\* GoroutineStats.GetSelectStats: the cases of the record
GetSelectStats(gs) == {c \in Cases : gs.SelectStats[c].present}

\* GoroutineStats.GetTotalSelectBlockedTime: the sum over the cases of the record
RECURSIVE SumBlocked(_, _)
SumBlocked(gs, S) ==
    IF S = {} THEN 0
    ELSE LET c == CHOOSE x \in S : TRUE
         IN  gs.SelectStats[c].BlockedCaseTime + SumBlocked(gs, S \ {c})

\* a total that is assigned each case's time in turn instead of adding it
GetTotalSelectBlockedTime_Assigned(gs) ==
    IF GetSelectStats(gs) = {} THEN 0
    ELSE gs.SelectStats[CHOOSE c \in GetSelectStats(gs) : TRUE].BlockedCaseTime

GetTotalSelectBlockedTime(gs) == SumBlocked(gs, GetSelectStats(gs))

\* a sort that leaves the slice as it is
Sort_Nothing(lat) == lat

\* slices.Sort: ascending
Sort(lat) == SortSeq(lat, LAMBDA x, y : x < y)

\* s.latencies after a GetPercentile call: the sort is on a copy, as SortInPlace is not
LatenciesAfterGetPercentile_SortInPlace(lat) == Sort(lat)

LatenciesAfterGetPercentile(lat) == lat

\* a percentile that ranks from the largest latency down
GetPercentile_FromTop(lat, n) ==
    IF Len(lat) = 0 THEN 0
    ELSE Sort(lat)[Len(lat) - (((Len(lat) - 1) * n) \div 100)]

\* SelectStats.GetPercentile(n): index := int(float64(len-1) * n / 100.0) of the
\* sorted copy, 0 for no latencies.  For the whole percents and the lengths used here
\* the float64 product and quotient are exact up to a rounding that never crosses
\* an integer, so int(...) is the integer quotient.
GetPercentile(lat, n) ==
    IF Len(lat) = 0 THEN 0
    ELSE Sort(lat)[(((Len(lat) - 1) * n) \div 100) + 1]

\* the address of the GoroutineStats allocated for id (one allocation per id)
NewAddr(id) == id

\* ------------------------------------------------------- TrackGoroutineStart
\* a start that stamps the record again when it already exists
TrackGoroutineStart_Lock_Restamp(p) ==
    /\ ~panicked
    /\ pc[p] = "idle"
    /\ CanLock
    /\ LET id == getGoroutineID(p)
           ex == Stats[id] # Nil
       IN  /\ Stats' = [Stats EXCEPT ![id] = NewAddr(id)]
           /\ heap' = [heap EXCEPT ![NewAddr(id)] =
                           IF ex THEN [@ EXCEPT !.StartTime = Now]
                                 ELSE NewGoroutineStats(id, Now)]
           /\ op' = [op EXCEPT ![p] = [NoOp EXCEPT !.id = id, !.exists = ex]]
    /\ mu' = p
    /\ pc' = [pc EXCEPT ![p] = "start_cs"]
    /\ UNCHANGED <<wg, panicked, clock, owner, history, export>>

\* gm.mu.Lock(); id := getGoroutineID(); if !exists { gm.Stats[id] = &GoroutineStats{...} }
TrackGoroutineStart_Lock(p) ==
    /\ ~panicked
    /\ pc[p] = "idle"
    /\ CanLock
    /\ LET id == getGoroutineID(p)
           ex == Stats[id] # Nil
       IN  /\ IF ex
              THEN UNCHANGED <<Stats, heap>>
              ELSE /\ Stats' = [Stats EXCEPT ![id] = NewAddr(id)]
                   /\ heap' = [heap EXCEPT ![NewAddr(id)] = NewGoroutineStats(id, Now)]
           /\ op' = [op EXCEPT ![p] = [NoOp EXCEPT !.id = id, !.exists = ex]]
    /\ mu' = p
    /\ pc' = [pc EXCEPT ![p] = "start_cs"]
    /\ UNCHANGED <<wg, panicked, clock, owner, history, export>>

\* gm.Wg.Add(1); return id   (deferred gm.mu.Unlock())
TrackGoroutineStart_Unlock(p) ==
    /\ ~panicked
    /\ pc[p] = "start_cs"
    /\ wg' = wg + 1
    /\ mu' = Nil
    /\ started' = started \cup {op[p].id}
    /\ pc' = [pc EXCEPT ![p] = "idle"]
    /\ op' = [op EXCEPT ![p] = NoOp]
    /\ UNCHANGED <<Stats, heap, panicked, clock, script, owner, returned, recorders, export>>

\* --------------------------------------------------------- TrackGoroutineEnd
\* an End that stamps every record of the map
TrackGoroutineEnd_Lock_Every(p, id) ==
    /\ ~panicked
    /\ pc[p] = "idle"
    /\ CanLock
    /\ heap' = [a \in DOMAIN heap |->
                  IF \E i \in Goroutines : Stats[i] = a
                  THEN [heap[a] EXCEPT !.EndTime = Now] ELSE heap[a]]
    /\ op' = [op EXCEPT ![p] = [NoOp EXCEPT !.id = id, !.exists = Stats[id] # Nil]]
    /\ mu' = p
    /\ pc' = [pc EXCEPT ![p] = "end_cs"]
    /\ UNCHANGED <<Stats, wg, panicked, clock, owner, history, export>>

\* gm.mu.Lock(); if stats, exists := gm.Stats[id]; exists { stats.EndTime = time.Now() }
TrackGoroutineEnd_Lock(p, id) ==
    /\ ~panicked
    /\ pc[p] = "idle"
    /\ CanLock
    /\ LET ex == Stats[id] # Nil
       IN  /\ IF ex
              THEN heap' = [heap EXCEPT ![Stats[id]].EndTime = Now]
              ELSE UNCHANGED heap
           /\ op' = [op EXCEPT ![p] = [NoOp EXCEPT !.id = id, !.exists = ex]]
    /\ mu' = p
    /\ pc' = [pc EXCEPT ![p] = "end_cs"]
    /\ UNCHANGED <<Stats, wg, panicked, clock, owner, history, export>>

\* the deferred func: gm.Wg.Done(); gm.mu.Unlock().  Wg.Done on a counter of 0
\* panics ("sync: negative WaitGroup counter") before the Unlock is reached.
TrackGoroutineEnd_Unlock(p) ==
    /\ ~panicked
    /\ pc[p] = "end_cs"
    /\ wg' = wg - 1
    /\ IF wg - 1 < 0
       THEN /\ panicked' = TRUE
            /\ pc' = [pc EXCEPT ![p] = "panic"]
            /\ UNCHANGED <<mu, op>>
       ELSE /\ mu' = Nil
            /\ pc' = [pc EXCEPT ![p] = "idle"]
            /\ op' = [op EXCEPT ![p] = NoOp]
            /\ UNCHANGED panicked
    /\ UNCHANGED <<Stats, heap, clock, script, owner, history, export>>

\* ----------------------------------------------------------- TrackSelectCase
\* gm.mu.Lock(); look up or create gm.Stats[id]; look up or create
\* stats.SelectStats[caseName]; AddLatency loads s.latencies
TrackSelectCase_Lock(p, caseName, duration, id) ==
    /\ ~panicked
    /\ pc[p] = "idle"
    /\ CanLock
    /\ LET ex == Stats[id] # Nil
            addr == IF ex THEN Stats[id] ELSE NewAddr(id)
            stats == IF ex THEN heap[addr] ELSE NewGoroutineStats(id, Now)
            selectStats == IF stats.SelectStats[caseName].present
                           THEN stats.SelectStats[caseName]
                           ELSE NewSelectStats
       IN  /\ Stats' = [Stats EXCEPT ![id] = addr]
           /\ heap' = [heap EXCEPT ![addr] =
                           [stats EXCEPT !.SelectStats[caseName] = selectStats]]
           /\ op' = [op EXCEPT ![p] = [id |-> id, caseName |-> caseName,
                                       d |-> duration, exists |-> ex,
                                       lat |-> selectStats.latencies, n |-> 0]]
    /\ mu' = p
    /\ pc' = [pc EXCEPT ![p] = "al_append"]
    /\ UNCHANGED <<wg, panicked, clock, owner, history, export>>

\* s.latencies = append(s.latencies, latency); then BlockedCaseTime is loaded
AddLatency_Append(p) ==
    /\ ~panicked
    /\ pc[p] = "al_append"
    /\ LET a == Stats[op[p].id]
           c == op[p].caseName
       IN  /\ heap' = [heap EXCEPT ![a].SelectStats[c].latencies =
                                        AppendLatency(op[p].lat, op[p].d)]
           /\ op' = [op EXCEPT ![p].n = heap[a].SelectStats[c].BlockedCaseTime]
    /\ pc' = [pc EXCEPT ![p] = "al_time"]
    /\ UNCHANGED <<Stats, mu, wg, panicked, clock, script, owner, history, export>>

\* s.BlockedCaseTime += latency (the store); then CaseHits is loaded
AddLatency_Time(p) ==
    /\ ~panicked
    /\ pc[p] = "al_time"
    /\ LET a == Stats[op[p].id]
           c == op[p].caseName
       IN  /\ heap' = [heap EXCEPT ![a].SelectStats[c].BlockedCaseTime =
                                        AddBlockedCaseTime(op[p].n, op[p].d)]
           /\ op' = [op EXCEPT ![p].n = heap[a].SelectStats[c].CaseHits]
    /\ pc' = [pc EXCEPT ![p] = "al_hits"]
    /\ UNCHANGED <<Stats, mu, wg, panicked, clock, script, owner, history, export>>

\* s.CaseHits++ (the store); AddLatency returns; deferred gm.mu.Unlock()
TrackSelectCase_Unlock(p) ==
    /\ ~panicked
    /\ pc[p] = "al_hits"
    /\ LET a == Stats[op[p].id]
           c == op[p].caseName
       IN  /\ heap' = [heap EXCEPT ![a].SelectStats[c].CaseHits = IncCaseHits(op[p].n)]
           /\ returned' = [returned EXCEPT ![op[p].id][c] =
                              [n |-> @.n + 1, sum |-> @.sum + op[p].d]]
           /\ recorders' = recorders \cup {p}
    /\ mu' = Nil
    /\ pc' = [pc EXCEPT ![p] = "idle"]
    /\ op' = [op EXCEPT ![p] = NoOp]
    /\ UNCHANGED <<Stats, wg, panicked, clock, script, owner, started, export>>

\* ------------------------------------------------------------------ the owner
\* gm.Wg.Add(n) by the owner of the manager, before it spawns the goroutines
CallerWgAdd(n) ==
    /\ ~panicked
    /\ mainPc = "init"
    /\ wg' = wg + n
    /\ preAdd' = n
    /\ mainPc' = "added"
    /\ UNCHANGED <<Stats, heap, mu, panicked, clock, workers, script,
                   snapTaken, snap, snapAt, obs, history, atDone, export>>

\* gm.FileType = ft; gm.Action = a, by the owner before it spawns the goroutines
SetConfig(ft, a) ==
    /\ ~panicked
    /\ mainPc = "init"
    /\ FileType = "" /\ Action = ""
    /\ <<ft, a>> # <<"", "">>
    /\ FileType' = ft
    /\ Action' = a
    /\ UNCHANGED <<registry, workers, script, owner, history, files, doc, ret>>

\* the owner calls gm.Done() and reaches gm.Wg.Wait()
Done_Call ==
    /\ ~panicked
    /\ mainPc \in {"init", "added"}
    /\ mainPc' = "waiting"
    /\ atDone' = started
    /\ UNCHANGED <<registry, workers, script, preAdd, snapTaken, snap, snapAt, obs, history, export>>

\* gm.Wg.Wait() returns: the counter is zero
Done_Wait ==
    /\ ~panicked
    /\ mainPc = "waiting"
    /\ wg = 0
    /\ mainPc' = "exporting"
    /\ UNCHANGED <<registry, workers, script, preAdd, snapTaken, snap, snapAt, obs, history, atDone, export>>

\* handlers of which the text one saves the text file alone
ExportFiles_TextAlone(ft, a) ==
    IF ft = "text" /\ a \in {PrintAndSave, Save} THEN {VisualizationTxt}
    ELSE IF ft = "json" /\ a \in {PrintAndSave, Save} THEN {InternalJson}
    ELSE {}

\* the files handleTextActions / handleJsonActions write for a FileType and an Action
ExportFiles(ft, a) ==
    IF ft = "text" /\ a \in {PrintAndSave, Save} THEN {VisualizationTxt, InternalJson}
    ELSE IF ft = "json" /\ a \in {PrintAndSave, Save} THEN {InternalJson}
    ELSE {}

\* GoroutineStats.GetGoroutineLifetime: up to now for a goroutine that has not ended
GetGoroutineLifetime(gs) ==
    IF gs.EndTime = 0 THEN Now - gs.StartTime ELSE gs.EndTime - gs.StartTime

\* the CaseJSON the exporters fill from an accumulator: the average and the
\* percentiles are assigned where CaseHits > 0 and stay zero elsewhere
CaseJSON(ss) ==
    [Hits |-> GetCaseHits(ss),
     TotalBlockedTime |-> GetCaseTime(ss),
     AvgBlockedTime |-> IF GetCaseHits(ss) > 0
                        THEN GetCaseTime(ss) \div GetCaseHits(ss) ELSE 0,
     Percentile90 |-> IF GetCaseHits(ss) > 0 THEN GetPercentile(ss.latencies, 90) ELSE 0,
     Percentile99 |-> IF GetCaseHits(ss) > 0 THEN GetPercentile(ss.latencies, 99) ELSE 0]

\* the GoroutineJSON the exporters fill from a record
GoroutineJSON(gs) ==
    [Lifetime |-> GetGoroutineLifetime(gs),
     TotalSelectTime |-> GetTotalSelectBlockedTime(gs),
     SelectCaseStats |-> [c \in GetSelectStats(gs) |-> CaseJSON(gs.SelectStats[c])]]

\* fmt.Sprintf("%d", goroutineID): the key of a goroutine in the JSON map
Sprintf(id) == ToString(id)

\* the JSONStats the exporters build from the map of GetAllStats
JSONStats(title, st, h) ==
    [Title |-> title,
     Goroutines |-> [k \in {Sprintf(id) : id \in {i \in DOMAIN st : st[i] # Nil}} |->
                        GoroutineJSON(h[st[CHOOSE i \in DOMAIN st :
                                               st[i] # Nil /\ Sprintf(i) = k]])]]

\* the struct tags of the producer's CaseJSON that say omitempty
OmitEmpty == {"average_blocked_time", "percentile_90", "percentile_99"}

\* encoding/json on an integer field tagged omitempty: zero counts as empty
IsEmptyValue_UpToOne(v) == v <= 1
IsEmptyValue(v) == v = 0

\* json.Marshal of a CaseJSON: a key per field, but for an empty omitempty field
MarshalCaseJSON(cj) ==
    LET all == ("hits" :> cj.Hits) @@ ("total_blocked_time" :> cj.TotalBlockedTime)
               @@ ("average_blocked_time" :> cj.AvgBlockedTime)
               @@ ("percentile_90" :> cj.Percentile90)
               @@ ("percentile_99" :> cj.Percentile99)
    IN  [t \in {u \in DOMAIN all : ~(u \in OmitEmpty /\ IsEmptyValue(all[u]))} |-> all[t]]

\* json.MarshalIndent of a JSONStats, as the object tree of the text
MarshalIndent(js) ==
    [title |-> js.Title,
     goroutines |->
        [k \in DOMAIN js.Goroutines |->
            [lifetime |-> js.Goroutines[k].Lifetime,
             total_select_blocked_time |-> js.Goroutines[k].TotalSelectTime,
             select_case_statistics |->
                 [c \in DOMAIN js.Goroutines[k].SelectCaseStats |->
                     MarshalCaseJSON(js.Goroutines[k].SelectCaseStats[c])]]]]

\* json.Unmarshal on one integer field of the consumer's structs: the value under
\* the field's tag, and the zero value the struct started with for an absent key
Field(obj, tag) == IF tag \in DOMAIN obj THEN obj[tag] ELSE 0

\* json.Unmarshal into the consumer's JSONStats (visualization.CaseJSON has no
\* omitempty and int64 fields)
Unmarshal(d) ==
    [Goroutines |->
        [k \in DOMAIN d.goroutines |->
            [Lifetime |-> Field(d.goroutines[k], "lifetime"),
             TotalSelectBlockedTime |-> Field(d.goroutines[k], "total_select_blocked_time"),
             SelectCaseStats |->
                 [c \in DOMAIN d.goroutines[k].select_case_statistics |->
                     LET o == d.goroutines[k].select_case_statistics[c]
                     IN  [Hits |-> Field(o, "hits"),
                          TotalBlockedTime |-> Field(o, "total_blocked_time"),
                          AvgBlockedTime |-> Field(o, "average_blocked_time"),
                          Percentile90 |-> Field(o, "percentile_90"),
                          Percentile99 |-> Field(o, "percentile_99")]]]]]

\* what a file can be after an exporter ran on it: os.Create failed (as it was),
\* created and the write failed (empty), written
FileOutcomes(old) == {old, "empty", "written"}

\* what Done returns to the owner
DoneRet(failed) == [call |-> "Done", arg |-> Nil, err |-> failed, val |-> Nil]

\* the objects after an exporter went through every record and case of the map:
\* it reads the fields and, where CaseHits > 0, calls GetPercentile(90) and (99)
Exported(h) ==
    [a \in DOMAIN h |->
        [h[a] EXCEPT !.SelectStats =
            [c \in Cases |->
                IF h[a].SelectStats[c].present /\ GetCaseHits(h[a].SelectStats[c]) > 0
                THEN [h[a].SelectStats[c] EXCEPT
                         !.latencies = LatenciesAfterGetPercentile(
                                           LatenciesAfterGetPercentile(@))]
                ELSE h[a].SelectStats[c]]]]

\* Done after the wait: None returns nil; "text" / "json" run their handler, which
\* takes GetAllStats (RLock) and exports, dropping the exporters' errors; any other
\* FileType returns the "invalid file type" error
Done_Export ==
    /\ ~panicked
    /\ mainPc = "exporting"
    /\ IF Action = None
       THEN /\ ret' = DoneRet(FALSE)
            /\ UNCHANGED <<heap, files, doc>>
       ELSE IF FileType \in {"text", "json"}
       THEN /\ CanRLock
            /\ heap' = IF Action \in {PrintAndSave, Save, PrintOnly}
                       THEN Exported(heap) ELSE heap
            /\ files' \in {f \in [FileNames -> {"none", "empty", "written"}] :
                              \A n \in FileNames :
                                  IF n \in ExportFiles(FileType, Action)
                                  THEN f[n] \in FileOutcomes(files[n])
                                  ELSE f[n] = files[n]}
            /\ doc' = IF InternalJson \in ExportFiles(FileType, Action)
                          /\ files'[InternalJson] = "written"
                       THEN MarshalIndent(JSONStats(".internal", Stats, heap))
                       ELSE doc
            /\ ret' = DoneRet(FALSE)
       ELSE /\ ret' = DoneRet(TRUE)
            /\ UNCHANGED <<heap, files, doc>>
    /\ mainPc' = "returned"
    /\ UNCHANGED <<Stats, mu, wg, panicked, clock, workers, script, preAdd,
                   snapTaken, snap, snapAt, obs, history, atDone, FileType, Action>>

\* a lookup that inserts a fresh record for an id it does not find
GetGoroutineStats_Inserting(id) ==
    /\ ~panicked
    /\ CanRLock
    /\ Stats' = [Stats EXCEPT ![id] = NewAddr(id)]
    /\ heap' = IF Stats[id] = Nil
               THEN [heap EXCEPT ![NewAddr(id)] = NewGoroutineStats(id, Now)]
               ELSE heap
    /\ ret' = [call |-> "GetGoroutineStats", arg |-> id, err |-> FALSE, val |-> NewAddr(id)]
    /\ UNCHANGED <<mu, wg, panicked, clock, workers, script, owner, history,
                   FileType, Action, files, doc>>

\* gm.mu.RLock(); return gm.Stats[id]: the pointer, nil when the map has no entry
GetGoroutineStats(id) ==
    /\ ~panicked
    /\ CanRLock
    /\ ret' = [call |-> "GetGoroutineStats", arg |-> id, err |-> FALSE, val |-> Stats[id]]
    /\ UNCHANGED <<registry, workers, script, owner, history, FileType, Action, files, doc>>

\* a GetPercentile that sorts s.latencies itself and keeps no copy
GetPercentile_Call_NoCopy(id, c, n) ==
    /\ ~panicked
    /\ Stats[id] # Nil
    /\ Acc(id, c).present
    /\ ret' = [call |-> "GetPercentile", arg |-> <<id, c>>, err |-> FALSE,
               val |-> (n :> GetPercentile(Acc(id, c).latencies, n))]
    /\ heap' = [heap EXCEPT ![Stats[id]].SelectStats[c].latencies = Sort(@)]
    /\ UNCHANGED <<Stats, mu, wg, panicked, clock, workers, script, owner, history,
                   FileType, Action, files, doc>>

\* s.GetPercentile(n) on the accumulator of (id, c), by a caller that holds its
\* pointer (s.mu is taken, gm.mu is not): the caller's first result for it
GetPercentile_Call(id, c, n) ==
    /\ ~panicked
    /\ Stats[id] # Nil
    /\ Acc(id, c).present
    /\ ret' = [call |-> "GetPercentile", arg |-> <<id, c>>, err |-> FALSE,
               val |-> (n :> GetPercentile(Acc(id, c).latencies, n))]
    /\ heap' = [heap EXCEPT ![Stats[id]].SelectStats[c].latencies =
                                 LatenciesAfterGetPercentile(@)]
    /\ UNCHANGED <<Stats, mu, wg, panicked, clock, workers, script, owner, history,
                   FileType, Action, files, doc>>

\* a further s.GetPercentile(n) on the same accumulator, as the exporters'
\* Percentile90 / Percentile99: the caller keeps the results side by side
GetPercentile_Again(id, c, n) ==
    /\ ~panicked
    /\ Stats[id] # Nil
    /\ Acc(id, c).present
    /\ ret.call = "GetPercentile"
    /\ ret.arg = <<id, c>>
    /\ n \notin DOMAIN ret.val
    /\ ret' = [ret EXCEPT !.val = @ @@ (n :> GetPercentile(Acc(id, c).latencies, n))]
    /\ heap' = [heap EXCEPT ![Stats[id]].SelectStats[c].latencies =
                                 LatenciesAfterGetPercentile(@)]
    /\ UNCHANGED <<Stats, mu, wg, panicked, clock, workers, script, owner, history,
                   FileType, Action, files, doc>>

\* gm.mu.RLock(); return maps.Clone(gm.Stats): the keys and the pointers are copied
GetAllStats ==
    /\ ~panicked
    /\ mainPc \notin {"waiting", "exporting"}
    /\ ~snapTaken
    /\ CanRLock
    /\ snap' = Stats
    /\ snapAt' = [i \in Goroutines |-> Deref(Stats[i])]
    /\ snapTaken' = TRUE
    /\ UNCHANGED <<registry, workers, script, mainPc, preAdd, obs, history, atDone, export>>

\* the owner reads one accumulator through the map GetAllStats returned
\* (GetCaseHits, GetCaseTime, the latencies GetPercentile copies); gm.mu is not held
ReadSnapshot(id, c) ==
    /\ ~panicked
    /\ mainPc \notin {"waiting", "exporting"}
    /\ snapTaken
    /\ ~obs.seen
    /\ snap[id] # Nil
    /\ heap[snap[id]].SelectStats[c].present
    /\ LET s == heap[snap[id]].SelectStats[c]
       IN  obs' = [seen |-> TRUE, BlockedCaseTime |-> s.BlockedCaseTime,
                   CaseHits |-> s.CaseHits, latencies |-> s.latencies]
    /\ UNCHANGED <<registry, workers, script, mainPc, preAdd, snapTaken, snap, snapAt, history, atDone, export>>

\* ------------------------------------------------------------ specifications
\* a goroutine inside a call goes on with it
Continue(p) ==
    \/ TrackGoroutineStart_Unlock(p)
    \/ TrackGoroutineEnd_Unlock(p)
    \/ AddLatency_Append(p)
    \/ AddLatency_Time(p)
    \/ TrackSelectCase_Unlock(p)

\* any goroutine may make any call of the API, with any arguments
FreeCall(p) ==
    /\ ncalls < MaxCalls
    /\ ncalls' = ncalls + 1
    /\ UNCHANGED calls
    /\ \/ TrackGoroutineStart_Lock(p)
       \/ \E id \in Goroutines : TrackGoroutineEnd_Lock(p, id)
       \/ \E c \in Cases, d \in Durations, id \in Goroutines :
              TrackSelectCase_Lock(p, c, d, id)

Next ==
    \/ \E p \in Goroutines : FreeCall(p)
    \/ \E p \in Goroutines : Continue(p)
    \/ Done_Call
    \/ Done_Wait
    \/ Done_Export

Spec == Init /\ [][Next]_vars

\* fair scheduling: a goroutine that is inside a call and can take its next
\* step (it holds gm.mu, so nothing makes it wait) eventually takes it
LiveSpec == Spec /\ \A p \in Goroutines : WF_vars(Continue(p))

\* the free clients and an owner that takes a snapshot and reads through it
SnapNext ==
    \/ \E p \in Goroutines : FreeCall(p)
    \/ \E p \in Goroutines : Continue(p)
    \/ GetAllStats
    \/ \E id \in Goroutines, c \in Cases : ReadSnapshot(id, c)

SnapSpec == Init /\ [][SnapNext]_vars

\* the usage of the readme and of TestConcurrentTracking: each spawned goroutine
\* runs  id := TrackGoroutineStart(); defer TrackGoroutineEnd(id);
\*       TrackSelectCase("case1", latency1, id); TrackSelectCase("case2", latency2, id)
DocCall(p) ==
    /\ mainPc # "init"
    /\ calls' = [calls EXCEPT ![p] = @ + 1]
    /\ UNCHANGED ncalls
    /\ \/ calls[p] = 0 /\ TrackGoroutineStart_Lock(p)
       \/ calls[p] = 1 /\ TrackSelectCase_Lock(p, "case1", Latency1, getGoroutineID(p))
       \/ calls[p] = 2 /\ TrackSelectCase_Lock(p, "case2", Latency2, getGoroutineID(p))
       \/ calls[p] = 3 /\ TrackGoroutineEnd_Lock(p, getGoroutineID(p))

\* allStats := gm.GetAllStats() after gm.Done() returned
DocGetAllStats == mainPc = "returned" /\ GetAllStats

DocNext ==
    \/ SetConfig("json", Save)
    \/ \E n \in 0..NumGoroutines : CallerWgAdd(n)
    \/ \E p \in Goroutines : DocCall(p)
    \/ \E p \in Goroutines : Continue(p)
    \/ Done_Call
    \/ Done_Wait
    \/ Done_Export
    \/ DocGetAllStats

DocSpec == Init /\ [][DocNext]_vars

\* time passes: the wall clock reads later
Tick ==
    /\ ~panicked
    /\ clock < MaxClock
    /\ clock' = clock + 1
    /\ UNCHANGED <<Stats, heap, mu, wg, panicked, workers, script, owner, history, export>>

\* the calls that touch a record's timestamps, made by any goroutine at any time
TimeCall(p) ==
    /\ ncalls < MaxTimeCalls
    /\ ncalls' = ncalls + 1
    /\ UNCHANGED calls
    /\ \/ TrackGoroutineStart_Lock(p)
       \/ \E id \in Goroutines : TrackGoroutineEnd_Lock(p, id)
       \/ \E id \in Goroutines : TrackSelectCase_Lock(p, "case1", 0, id)

TimeNext ==
    \/ \E p \in Goroutines : TimeCall(p)
    \/ \E p \in Goroutines : Continue(p)
    \/ Tick

TimeSpec == Init /\ [][TimeNext]_vars

\* the free clients and an owner that calls Done and then takes its snapshot
AwaitNext ==
    \/ \E p \in Goroutines : FreeCall(p)
    \/ \E p \in Goroutines : Continue(p)
    \/ Done_Call
    \/ Done_Wait
    \/ Done_Export
    \/ DocGetAllStats

AwaitSpec == Init /\ [][AwaitNext]_vars

\* the free clients and a reader that looks records up by id
ReadNext ==
    \/ \E p \in Goroutines : FreeCall(p)
    \/ \E p \in Goroutines : Continue(p)
    \/ \E id \in Goroutines : GetGoroutineStats(id)

ReadSpec == Init /\ [][ReadNext]_vars

\* the values the owner may give gm.FileType and gm.Action ("" is the zero value
\* NewGoroutineManager leaves, "xml" stands for any other string)
FileTypes == {"", "text", "json", "xml"}
Actions == {"", PrintAndSave, Save, PrintOnly, None}

\* goroutines that record select cases under their own id
RecordCall(p) ==
    /\ ncalls < MaxCalls
    /\ ncalls' = ncalls + 1
    /\ UNCHANGED calls
    /\ \E c \in Cases, d \in Durations : TrackSelectCase_Lock(p, c, d, getGoroutineID(p))

Recording(p) ==
    \/ AddLatency_Append(p)
    \/ AddLatency_Time(p)
    \/ TrackSelectCase_Unlock(p)

\* an owner that configures the export and calls Done while goroutines record
ExportNext ==
    \/ \E ft \in FileTypes, a \in Actions : SetConfig(ft, a)
    \/ \E p \in Goroutines : RecordCall(p)
    \/ \E p \in Goroutines : Recording(p)
    \/ Done_Call
    \/ Done_Wait
    \/ Done_Export

ExportSpec == Init /\ [][ExportNext]_vars

\* all sequences over S of length at most k
SeqsUpTo(S, k) == UNION {[1..m -> S] : m \in 0..k}

\* the registry after goroutine 1 recorded the latencies lat, in that order, on
\* "case1" under its own id (for no latency: the case's fresh &SelectStats{})
Recorded(lat) ==
    /\ Stats = [i \in Goroutines |-> IF i = 1 THEN NewAddr(1) ELSE Nil]
    /\ heap = [a \in Goroutines |->
                 IF a = NewAddr(1)
                 THEN [NewGoroutineStats(1, 1) EXCEPT !.SelectStats["case1"] =
                          [present |-> TRUE, BlockedCaseTime |-> SumSeq(lat),
                           CaseHits |-> Len(lat), latencies |-> lat]]
                 ELSE NoGoroutineStats]
    /\ returned = [i \in Goroutines |-> [c \in Cases |->
                     IF i = 1 /\ c = "case1"
                     THEN [n |-> Len(lat), sum |-> SumSeq(lat)]
                     ELSE [n |-> 0, sum |-> 0]]]

\* GetPercentile as a function of the latencies and of the percent: every short
\* latency list, every whole percent
PctInit == (\E lat \in SeqsUpTo(Durations, MaxSamples) : Recorded(lat)) /\ Quiet

PctNext == \E id \in Goroutines, c \in Cases, n \in 0..100 : GetPercentile_Call(id, c, n)

PctSpec == PctInit /\ [][PctNext]_vars

\* two durations: a rank selection commutes with every monotone map of the
\* durations, so an order between two selected elements shows on two values
TwoDurations == {0, 1}

\* the percentiles the exporters ask for, and the minimum
ExportedPercents == {0, 90, 99}

\* the long latency lists, on which the 90th and the 99th rank differ
MonoInit == (\E lat \in SeqsUpTo(TwoDurations, MaxLongSamples) : Recorded(lat)) /\ Quiet

MonoNext ==
    \/ \E id \in Goroutines, c \in Cases, n \in ExportedPercents :
           GetPercentile_Call(id, c, n)
    \/ \E id \in Goroutines, c \in Cases, n \in ExportedPercents :
           GetPercentile_Again(id, c, n)

MonoSpec == MonoInit /\ [][MonoNext]_vars

\* goroutines that record while a reader that holds the accumulators' pointers
\* asks for percentiles: GetPercentile takes s.mu and not gm.mu, AddLatency runs
\* under gm.mu and does not take s.mu, so neither waits for the other (the
\* reader sees the list as it is before or after the append)
RaceNext ==
    \/ \E p \in Goroutines : RecordCall(p)
    \/ \E p \in Goroutines : Recording(p)
    \/ \E id \in Goroutines, c \in Cases, n \in ExportedPercents :
           GetPercentile_Call(id, c, n)

RaceSpec == Init /\ [][RaceNext]_vars

\* ------------------------------------------------------------ the histogram
\* var buckets, in milliseconds
buckets == <<0, 10, 50, 100, 500, 1000, 5000, 10000>>

\* the inner loop of PrintBlockedTimeHistogram: the index of the first bucket b
\* with blocked <= b, 0 when the loop ends with placed still false
RECURSIVE Place(_, _, _)
Place(blocked, bs, i) ==
    IF i > Len(bs) THEN 0
    ELSE IF blocked <= bs[i] THEN i
    ELSE Place(blocked, bs, i + 1)

\* a loop whose inner loop has no break: a task is counted in every bucket that
\* could take it
HistogramLoop_NoBreak(stats, S, acc) ==
    [histogram |-> [b \in DOMAIN acc.histogram |->
                       acc.histogram[b] + Cardinality({id \in S :
                           GetTotalSelectBlockedTime(stats[id]) <= b})],
     overflowCount |-> acc.overflowCount + Cardinality({id \in S :
                           \A b \in DOMAIN acc.histogram :
                               GetTotalSelectBlockedTime(stats[id]) > b})]

\* the outer loop of PrintBlockedTimeHistogram over the records S of the map
RECURSIVE HistogramLoop(_, _, _)
HistogramLoop(stats, S, acc) ==
    IF S = {} THEN acc
    ELSE LET id == CHOOSE x \in S : TRUE
             i == Place(GetTotalSelectBlockedTime(stats[id]), buckets, 1)
         IN  HistogramLoop(stats, S \ {id},
                 IF i > 0
                 THEN [acc EXCEPT !.histogram[buckets[i]] = @ + 1]
                 ELSE [acc EXCEPT !.overflowCount = @ + 1])

\* the tasks of the maps given to the histogram, and their total blocked times
\* in milliseconds: on, between and beyond the thresholds
MaxTasks == 3
Tasks == 1..MaxTasks
Totals == {0, 5, 10, 30, 50, 100, 200, 10000, 20000}

\* a record whose cases sum to the total t
TaskWithTotal(id, t) ==
    [NewGoroutineStats(id, 1) EXCEPT !.SelectStats["case1"] =
        [present |-> TRUE, BlockedCaseTime |-> t, CaseHits |-> 1, latencies |-> <<t>>]]

\* PrintBlockedTimeHistogram(stats, title), once: the counts it prints
PrintBlockedTimeHistogram(stats) ==
    /\ ~panicked
    /\ ret = NoRet
    /\ ret' = [call |-> "PrintBlockedTimeHistogram", arg |-> stats, err |-> FALSE,
               val |-> HistogramLoop(stats, DOMAIN stats,
                           [histogram |-> [b \in Range(buckets) |-> 0],
                            overflowCount |-> 0])]
    /\ UNCHANGED <<registry, workers, script, owner, history, FileType, Action, files, doc>>

\* WriteBlockedTimeHistogramDot(stats, stageName), once: the counts in the labels
\* of the graph (the same two loops), and whether os.WriteFile failed
WriteBlockedTimeHistogramDot(stats) ==
    /\ ~panicked
    /\ ret = NoRet
    /\ \E failed \in BOOLEAN :
           ret' = [call |-> "WriteBlockedTimeHistogramDot", arg |-> stats, err |-> failed,
                   val |-> HistogramLoop(stats, DOMAIN stats,
                               [histogram |-> [b \in Range(buckets) |-> 0],
                                overflowCount |-> 0])]
    /\ UNCHANGED <<registry, workers, script, owner, history, FileType, Action, files, doc>>

HistNext ==
    \E S \in SUBSET Tasks : \E tot \in [S -> Totals] :
        \/ PrintBlockedTimeHistogram([id \in S |-> TaskWithTotal(id, tot[id])])
        \/ WriteBlockedTimeHistogramDot([id \in S |-> TaskWithTotal(id, tot[id])])

HistSpec == Init /\ [][HistNext]_vars

\* ------------------------------------------------------------ the line graph
\* strconv.Atoi on a key of the goroutines object: the number the decimal text
\* stands for, with ok false for a text that is no number
MaxId == 9
Atoi(k) ==
    IF \E i \in 0..MaxId : ToString(i) = k
    THEN [ok |-> TRUE, id |-> CHOOSE i \in 0..MaxId : ToString(i) = k]
    ELSE [ok |-> FALSE, id |-> 0]

\* a float64 that is a ratio of two durations, kept as the ratio
Ratio(n, d) == [num |-> n, den |-> d]

\* 1 - float64(totalBlocked)/float64(lifetime)
OneMinus(totalBlocked, lifetime) == Ratio(lifetime - totalBlocked, lifetime)

\* ParseJSONToGoroutineStats of the line graph the command calls (the one with
\* GenerateLineGraph()): var efficiency float64 keeps its zero value unless
\* lifetime > 0
GoroutineEfficiency(g) ==
    IF g.Lifetime > 0 THEN OneMinus(g.TotalSelectBlockedTime, g.Lifetime) ELSE Ratio(0, 1)

\* the loops of visualization/line_graph.go over the cases S of a goroutine: the
\* average of each case repeated Hits times, and the sum of the cases' totals
RECURSIVE BlockedLoop(_, _, _)
BlockedLoop(cs, S, acc) ==
    IF S = {} THEN acc
    ELSE LET c == CHOOSE x \in S : TRUE
         IN  BlockedLoop(cs, S \ {c},
                 [blockedTimes |-> acc.blockedTimes \o
                                      [i \in 1..cs[c].Hits |-> cs[c].AvgBlockedTime],
                  totalBlocked |-> acc.totalBlocked + cs[c].TotalBlockedTime])

\* ParseJSONToGoroutineStats of visualization/line_graph.go (the one with
\* GenerateLineGraph(statsFile)): efficiency := 1.0 unless lifetime > 0
GoroutineEfficiency_FromCases(g) ==
    LET l == BlockedLoop(g.SelectCaseStats, DOMAIN g.SelectCaseStats,
                         [blockedTimes |-> <<>>, totalBlocked |-> 0])
    IN  IF g.Lifetime > 0 THEN OneMinus(l.totalBlocked, g.Lifetime) ELSE Ratio(1, 1)

\* the error both versions return for a key that is no number
InvalidId(input) == \E k \in DOMAIN input.Goroutines : ~Atoi(k).ok

\* ParseJSONToGoroutineStats(data) of the command's line graph, once
ParseJSONToGoroutineStats(data) ==
    /\ ~panicked
    /\ ret = NoRet
    /\ LET input == Unmarshal(data)
       IN  ret' = [call |-> "ParseJSONToGoroutineStats", arg |-> data,
                   err |-> InvalidId(input),
                   val |-> IF InvalidId(input) THEN {}
                           ELSE {[ID |-> Atoi(k).id,
                                  Lifetime |-> input.Goroutines[k].Lifetime,
                                  TotalBlockedTime |->
                                      input.Goroutines[k].TotalSelectBlockedTime,
                                  Efficiency |-> GoroutineEfficiency(input.Goroutines[k])] :
                                     k \in DOMAIN input.Goroutines}]
    /\ UNCHANGED <<registry, workers, script, owner, history, FileType, Action, files, doc>>

\* ParseJSONToGoroutineStats(data) of visualization/line_graph.go, once
ParseJSONToGoroutineStats_FromCases(data) ==
    /\ ~panicked
    /\ ret = NoRet
    /\ LET input == Unmarshal(data)
       IN  ret' = [call |-> "ParseJSONToGoroutineStats", arg |-> data,
                   err |-> InvalidId(input),
                   val |-> IF InvalidId(input) THEN {}
                           ELSE {[ID |-> Atoi(k).id,
                                  Lifetime |-> input.Goroutines[k].Lifetime,
                                  BlockedTimes |->
                                      BlockedLoop(input.Goroutines[k].SelectCaseStats,
                                          DOMAIN input.Goroutines[k].SelectCaseStats,
                                          [blockedTimes |-> <<>>,
                                           totalBlocked |-> 0]).blockedTimes,
                                  StartTime |-> Now - input.Goroutines[k].Lifetime,
                                  EndTime |-> Now,
                                  Efficiency |->
                                      GoroutineEfficiency_FromCases(input.Goroutines[k])] :
                                     k \in DOMAIN input.Goroutines}]
    /\ UNCHANGED <<registry, workers, script, owner, history, FileType, Action, files, doc>>

\* barWidth := 40
barWidth == 40

\* a score view that shows the efficiency as it comes
Clamp_Unclamped(eff) == eff

\* if efficiency < 0 { efficiency = 0 } else if efficiency > 1 { efficiency = 1 }
\* (the denominator of an efficiency is a lifetime > 0, or 1)
Clamp(eff) ==
    IF eff.num < 0 THEN Ratio(0, 1)
    ELSE IF eff.num > eff.den THEN Ratio(1, 1)
    ELSE eff

\* int(efficiency * float64(barWidth)) for the ratio efficiency: the conversion
\* truncates toward zero
FilledWidth(eff) ==
    IF eff.num >= 0 THEN (eff.num * barWidth) \div eff.den
    ELSE -((-eff.num * barWidth) \div eff.den)

\* sort.Slice(stats, ... stats[i].ID < stats[j].ID) on the slice of the parser
ByID(stats) ==
    SortSeq(CHOOSE f \in [1..Cardinality(stats) -> stats] :
                \A i, j \in 1..Cardinality(stats) : i # j => f[i] # f[j],
            LAMBDA a, b : a.ID < b.ID)

\* printLineGraph(stats) on what ParseJSONToGoroutineStats returned (the second
\* half of GenerateLineGraphFromJSON): per goroutine, in the order of the ids,
\* the two strings.Repeat counts of the bar
printLineGraph ==
    /\ ~panicked
    /\ ret.call = "ParseJSONToGoroutineStats"
    /\ ~ret.err
    /\ ret.val # {}
    /\ ret' = [call |-> "printLineGraph", arg |-> ret.val, err |-> FALSE,
               val |-> [i \in 1..Cardinality(ret.val) |->
                          LET g == ByID(ret.val)[i]
                              filledWidth == FilledWidth(Clamp(g.Efficiency))
                          IN  [ID |-> g.ID,
                               filledWidth |-> filledWidth,
                               unfilledWidth |-> barWidth - filledWidth]]]
    /\ UNCHANGED <<registry, workers, script, owner, history, FileType, Action, files, doc>>

\* the .internal.json files given to the line graph: a lifetime and a blocked
\* time per goroutine, the blocked time recorded by one event on "case1", under
\* keys that are numbers and one that is not
MaxLifetime == 2
GraphKeys == {"1", "2", "x"}

GoroutineObject(lifetime, blocked) ==
    [lifetime |-> lifetime,
     total_select_blocked_time |-> blocked,
     select_case_statistics |->
         ("case1" :> MarshalCaseJSON([Hits |-> 1, TotalBlockedTime |-> blocked,
                                      AvgBlockedTime |-> blocked,
                                      Percentile90 |-> blocked,
                                      Percentile99 |-> blocked]))]

GraphFiles ==
    UNION {[K -> {GoroutineObject(l, b) : l \in 0..MaxLifetime, b \in 0..MaxLifetime}] :
              K \in SUBSET GraphKeys}

GraphNext ==
    \/ \E g \in GraphFiles :
        \/ ParseJSONToGoroutineStats([title |-> ".internal", goroutines |-> g])
        \/ ParseJSONToGoroutineStats_FromCases([title |-> ".internal", goroutines |-> g])
    \/ printLineGraph

GraphSpec == Init /\ [][GraphNext]_vars

\* ------------------------------------------------------------ the bar chart
\* sharedtypes.VisualizationType
TotalBlockedTime == 0
AverageTime == 1
Percentile90 == 2
Percentile99 == 3
TotalHits == 4
UnknownType == 5
VisualizationTypes ==
    {TotalBlockedTime, AverageTime, Percentile90, Percentile99, TotalHits, UnknownType}

\* if stat.Percentile90 > existing.Percentile90 { existing.Percentile90 = stat.Percentile90 }
MaxDuration_Last(existing, stat) == stat
MaxDuration(existing, stat) == IF stat > existing THEN stat ELSE existing

\* AggregateCaseStats: the loop over caseStats from index i on, agg the map from
\* case name to *CaseJSON built so far
RECURSIVE AggregateLoop(_, _, _)
AggregateLoop(caseStats, i, agg) ==
    IF i > Len(caseStats) THEN agg
    ELSE LET stat == caseStats[i]
         IN  AggregateLoop(caseStats, i + 1,
                 IF stat.CaseName \in DOMAIN agg
                 THEN [agg EXCEPT ![stat.CaseName] =
                          [CaseName |-> @.CaseName,
                           Hits |-> @.Hits + stat.Hits,
                           TotalBlockedTime |-> @.TotalBlockedTime + stat.TotalBlockedTime,
                           AvgBlockedTime |-> @.AvgBlockedTime + stat.AvgBlockedTime,
                           Percentile90 |-> MaxDuration(@.Percentile90, stat.Percentile90),
                           Percentile99 |-> MaxDuration(@.Percentile99, stat.Percentile99)]]
                 ELSE agg @@ (stat.CaseName :> stat))

AggregateCaseStats(caseStats) == AggregateLoop(caseStats, 1, EmptyObject)

\* GetValueForCase: the field a visualization type shows
GetValueForCase(stat, visType) ==
    CASE visType = TotalBlockedTime -> stat.TotalBlockedTime
      [] visType = AverageTime -> stat.AvgBlockedTime
      [] visType = Percentile90 -> stat.Percentile90
      [] visType = Percentile99 -> stat.Percentile99
      [] visType = TotalHits -> stat.Hits
      [] OTHER -> 0

\* the less function SortCaseStats gives sort.Slice: greater first, and false
\* for a type that is none of the five
Less(a, b, visType) ==
    visType \in VisualizationTypes \ {UnknownType}
        /\ GetValueForCase(a, visType) > GetValueForCase(b, visType)

SortCaseStats(stats, visType) == SortSeq(stats, LAMBDA a, b : Less(a, b, visType))

\* the orders in which a range over a map can give its values
MapOrders(m) ==
    {[i \in 1..Cardinality(DOMAIN m) |-> m[ks[i]]] :
        ks \in {f \in [1..Cardinality(DOMAIN m) -> DOMAIN m] :
                   \A i, j \in DOMAIN f : i # j => f[i] # f[j]}}

\* printBarChart(caseStats, visType, goroutineCount), once: the aggregated
\* series put in a slice in the order of the map and sorted
printBarChart(caseStats, visType) ==
    /\ ~panicked
    /\ ret = NoRet
    /\ Len(caseStats) > 0
    /\ \E aggregatedSlice \in MapOrders(AggregateCaseStats(caseStats)) :
           ret' = [call |-> "printBarChart", arg |-> <<caseStats, visType>>,
                   err |-> FALSE, val |-> SortCaseStats(aggregatedSlice, visType)]
    /\ UNCHANGED <<registry, workers, script, owner, history, FileType, Action, files, doc>>

\* the case statistics ParseJSONToStats hands over: per goroutine and case the
\* hits, the total, the average total / hits and two percentiles
MaxCaseStats == 3
CaseStatValues == {<<1, 0, 0, 0>>, <<1, 2, 2, 2>>, <<2, 2, 0, 2>>, <<2, 3, 1, 2>>}
CaseStatsOf ==
    {[CaseName |-> c, Hits |-> v[1], TotalBlockedTime |-> v[2],
      AvgBlockedTime |-> v[2] \div v[1], Percentile90 |-> v[3], Percentile99 |-> v[4]] :
        c \in Cases, v \in CaseStatValues}

ChartNext ==
    \E caseStats \in SeqsUpTo(CaseStatsOf, MaxCaseStats), visType \in VisualizationTypes :
        printBarChart(caseStats, visType)

ChartSpec == Init /\ [][ChartNext]_vars

\* ======================================================================
\* Properties
\* ======================================================================

\* a TrackSelectCase call on (id, c) has taken the lock and not yet returned
InFlight(id, c) ==
    \E p \in Goroutines :
        /\ pc[p] \in {"al_append", "al_time", "al_hits"}
        /\ op[p].id = id
        /\ op[p].caseName = c

\* TrackGoroutineEnd has set the EndTime of id's record and returned
Ended(id) ==
    /\ Stats[id] # Nil
    /\ heap[Stats[id]].EndTime # 0
    /\ ~\E p \in Goroutines : pc[p] = "end_cs" /\ op[p].id = id

\* C1: no lost updates.  Whenever every TrackSelectCase call on an (id, case)
\* pair has returned, the pair's CaseHits is the number of calls that returned
\* and its BlockedCaseTime is the sum of the durations they passed, whichever
\* goroutines made the calls and however they interleaved.
C1_NoLostUpdates ==
    \A id \in Goroutines, c \in Cases :
        ~InFlight(id, c) =>
            /\ Acc(id, c).CaseHits = returned[id][c].n
            /\ Acc(id, c).BlockedCaseTime = returned[id][c].sum

\* two calls were made, by two goroutines, both on the same pair, and both returned
C1_Witness ==
    \E id \in Goroutines, c \in Cases :
        /\ ncalls = 2
        /\ Cardinality(recorders) = 2
        /\ returned[id][c].n = 2
        /\ returned[id][c].sum >= 1
        /\ ~InFlight(id, c)
        /\ Acc(id, c).CaseHits = 2

\* C2: with the documented usage (the owner called gm.Wg.Add(N), every one of
\* the N goroutines ran Start, its cases and End), once all N goroutines have
\* ended the wait inside Done can return: the counter is back at zero.
C2_DoneReturns ==
    ( /\ preAdd = NumGoroutines
      /\ mainPc = "waiting"
      /\ \A p \in Goroutines : calls[p] = 4 /\ pc[p] = "idle" )
    => wg = 0

\* C3: at the step at which gm.Wg.Wait() returns inside Done, every task whose
\* TrackGoroutineStart has returned has completed its TrackGoroutineEnd.
C3_WaitIsBarrier ==
    [][ (mainPc = "waiting" /\ mainPc' = "exporting")
            => \A id \in started : Ended(id) ]_vars

\* what CheckStatsAccuracy accepts of one record
StatsAccurate(gs) ==
    /\ GetSelectStats(gs) = {"case1", "case2"}
    /\ GetCaseHits(gs.SelectStats["case1"]) = 1
    /\ GetCaseHits(gs.SelectStats["case2"]) = 1
    /\ GetAverage(gs.SelectStats["case1"]) = Latency1
    /\ GetAverage(gs.SelectStats["case2"]) = Latency2
    /\ GetTotalSelectBlockedTime(gs) = Latency1 + Latency2

\* C4: N goroutines each run Start, TrackSelectCase("case1", d1),
\* TrackSelectCase("case2", d2), End; the map GetAllStats returns after Done
\* has returned holds exactly N records, each with exactly the two cases,
\* one hit each, averages d1 and d2 and total d1 + d2.
C4_ExactAfterDone ==
    (snapTaken /\ mainPc = "returned") =>
        /\ Cardinality({i \in Goroutines : snap[i] # Nil}) = NumGoroutines
        /\ \A i \in Goroutines : snap[i] # Nil => StatsAccurate(heap[snap[i]])

SnapView == [i \in Goroutines |-> Deref(snap[i])]

\* C6: the map GetAllStats returned is an independent point-in-time copy: what
\* is readable through it (task set, end times, case sets, hits, totals) stays
\* what it was when GetAllStats returned, whatever is called afterwards.
C6_SnapshotIndependent == snapTaken => SnapView = snapAt

\* C7: whatever the owner reads of an accumulator through a snapshot taken
\* while writers are running is internally consistent: hits, total blocked
\* time and the latency list agree.
C7_ReaderSeesConsistent ==
    obs.seen =>
        /\ obs.CaseHits = Len(obs.latencies)
        /\ obs.BlockedCaseTime = SumSeq(obs.latencies)

\* the tasks that have started and not yet ended
Running == {id \in started : heap[Stats[id]].EndTime = 0}

\* C8: the WaitGroup counter is never negative and, between calls, equals the
\* number of tasks that have started and not yet ended.
C8_BarrierCountsRunning ==
    /\ wg >= 0
    /\ ~panicked
    /\ (mu = Nil => wg = Cardinality(Running))

\* C9: TrackGoroutineEnd(id) for an id without a record leaves the tasks map
\* and the WaitGroup counter unchanged and does not panic.
C9_EndUnknownIsNoOp ==
    [][ \A p \in Goroutines :
          (pc[p] = "end_cs" /\ ~op[p].exists /\ pc'[p] # "end_cs")
              => (wg' = wg /\ Stats' = Stats /\ heap' = heap /\ ~panicked') ]_vars

\* C10: a TrackGoroutineStart for an id that already has a record changes
\* neither the record nor the WaitGroup counter.
C10_StartIdempotent ==
    [][ \A p \in Goroutines :
          (pc[p] = "start_cs" /\ op[p].exists /\ pc'[p] = "idle")
              => (wg' = wg /\ Stats' = Stats /\ heap' = heap) ]_vars

\* C11: the StartTime of a record is the clock reading at which the record was
\* created, and no later step of any call changes it.
C11_StartTimeSetOnce ==
    [][ \A a \in Goroutines :
          IF heap[a].GoroutineId = Nil
          THEN heap'[a].GoroutineId # Nil => heap'[a].StartTime = Now
          ELSE heap'[a].StartTime = heap[a].StartTime ]_vars

\* a record created at time 1 that took a case, whose goroutine has returned from
\* TrackGoroutineStart, and on which TrackGoroutineEnd set the end time at time 2
C11_Witness ==
    \E id \in Goroutines :
        /\ Stats[id] # Nil
        /\ heap[Stats[id]].StartTime = 1
        /\ heap[Stats[id]].EndTime = 2
        /\ GetSelectStats(heap[Stats[id]]) # {}
        /\ id \in started

\* C12: the EndTime of a record, once set, is never changed by any later step.
C12_EndTimeNeverReset ==
    [][ \A a \in Goroutines :
          heap[a].EndTime # 0 => heap'[a].EndTime = heap[a].EndTime ]_vars

\* C13: when a TrackSelectCase(caseName, duration, id) that found no record for
\* id returns, a record for id exists with its StartTime set, the named case
\* has CaseHits = 1 and BlockedCaseTime = duration, and nothing has failed.
C13_ImplicitStart ==
    [][ \A p \in Goroutines :
          (pc[p] = "al_hits" /\ ~op[p].exists /\ pc'[p] = "idle") =>
              /\ ~panicked'
              /\ Stats'[op[p].id] # Nil
              /\ heap'[Stats'[op[p].id]].GoroutineId = op[p].id
              /\ heap'[Stats'[op[p].id]].StartTime # 0
              /\ heap'[Stats'[op[p].id]].SelectStats[op[p].caseName].present
              /\ heap'[Stats'[op[p].id]].SelectStats[op[p].caseName].CaseHits = 1
              /\ heap'[Stats'[op[p].id]].SelectStats[op[p].caseName].BlockedCaseTime
                     = op[p].d ]_vars

\* the first call ever made was a TrackSelectCase of duration 0, and it has returned
C13_Witness ==
    \E id \in Goroutines, c \in Cases :
        /\ ncalls = 1
        /\ started = {}
        /\ \A p \in Goroutines : pc[p] = "idle"
        /\ returned[id][c] = [n |-> 1, sum |-> 0]
        /\ Stats[id] # Nil
        /\ Acc(id, c).CaseHits = 1

\* C14: a snapshot taken after Done has returned shows every task that had
\* started when Done was called with its EndTime set.
C14_SnapshotAfterAwaitShowsEnded ==
    (snapTaken /\ mainPc = "returned") =>
        \A id \in atDone : snap[id] # Nil /\ snapAt[id].EndTime # 0

\* C15: a GetGoroutineStats(id) for an id that has no record returns nil, does
\* not fail, and leaves the registry as it was: no record is created for id.
C15_LookupUnknownReturnsNil ==
    [][ (ret' # ret /\ ret'.call = "GetGoroutineStats" /\ Stats[ret'.arg] = Nil) =>
            /\ ret'.val = Nil
            /\ ~ret'.err
            /\ ~panicked'
            /\ Stats' = Stats
            /\ heap' = heap ]_vars

\* the last lookup was for an id without a record, while another id has one
C15_Witness ==
    /\ ret.call = "GetGoroutineStats"
    /\ Stats[ret.arg] = Nil
    /\ ret.val = Nil
    /\ \E id \in Goroutines : Stats[id] # Nil

\* the step at which Done returns to the owner
DoneReturns == mainPc = "exporting" /\ mainPc' = "returned"

\* C16: a Done whose FileType is neither "text" nor "json" returns an error,
\* writes no file and leaves the statistics unchanged, whatever the Action.
C16_InvalidFileTypeReported ==
    [][ (DoneReturns /\ FileType \notin {"text", "json"}) =>
            /\ ret'.err
            /\ files' = files
            /\ Stats' = Stats
            /\ heap' = heap ]_vars

\* C17: when Done has returned and an export file it had to write was not
\* created or not written, Done has returned an error.
C17_IOErrorReported ==
    ( /\ mainPc = "returned"
      /\ \E n \in ExportFiles(FileType, Action) : files[n] # "written" )
    => ret.err

\* C18: the step at which Done exports and returns, with or without a failure,
\* leaves the registry's task set and every field of every record unchanged.
C18_ExportLeavesStats ==
    [][ DoneReturns => (Stats' = Stats /\ heap' = heap) ]_vars

\* Done ran the text handler on an accumulator holding the latencies 1, 0 in
\* that order; the text file was written and the JSON file was not
C18_Witness ==
    /\ mainPc = "returned"
    /\ ret = DoneRet(FALSE)
    /\ FileType = "text"
    /\ Action \in {PrintAndSave, Save}
    /\ files[VisualizationTxt] = "written"
    /\ files[InternalJson] = "empty"
    /\ \E id \in Goroutines, c \in Cases : Acc(id, c).latencies = <<1, 0>>


\* v is the element of rank k (from 0) of lat in ascending order
HasRank(lat, k, v) ==
    /\ v \in Range(lat)
    /\ Cardinality({i \in 1..Len(lat) : lat[i] < v}) <= k
    /\ Cardinality({i \in 1..Len(lat) : lat[i] <= v}) >= k + 1

\* the accumulator the owner's last GetPercentile calls were made on
Asked == Acc(ret.arg[1], ret.arg[2]).latencies

\* C19: GetPercentile(P) on an accumulator with n latencies returns 0 if n = 0
\* and otherwise the element of rank floor((n-1) * P / 100) of the latencies in
\* ascending order, for every whole P in 0..100.
C19_NearestRank ==
    ret.call = "GetPercentile" =>
        \A P \in DOMAIN ret.val :
            IF Len(Asked) = 0
            THEN ret.val[P] = 0
            ELSE HasRank(Asked, ((Len(Asked) - 1) * P) \div 100, ret.val[P])

\* the median asked of four latencies recorded as 1, 1, 0, 0: rank 1 is a 0,
\* where the slice as recorded holds a 1
C19_Witness ==
    /\ ret.call = "GetPercentile"
    /\ Asked = <<1, 1, 0, 0>>
    /\ DOMAIN ret.val = {50}
    /\ ret.val[50] = 0

\* the largest element of a non-empty latency list
MaxOf(lat) == CHOOSE w \in Range(lat) : \A v \in Range(lat) : v <= w

\* C20: for a non-empty latency list, GetPercentile(90) <= GetPercentile(99)
\* <= max(latencies), and GetPercentile(0) = min(latencies).
C20_PercentileMonotone ==
    (ret.call = "GetPercentile" /\ Len(Asked) > 0) =>
        /\ (90 \in DOMAIN ret.val /\ 99 \in DOMAIN ret.val) => ret.val[90] <= ret.val[99]
        /\ 99 \in DOMAIN ret.val => ret.val[99] <= MaxOf(Asked)
        /\ 0 \in DOMAIN ret.val =>
               (ret.val[0] \in Range(Asked) /\ \A v \in Range(Asked) : ret.val[0] <= v)

\* thirteen latencies, a 1 recorded first and eleven 0 among them: the 90th
\* percentile (rank 10) is 0, the 99th (rank 11) is 1, the minimum is 0
C20_Witness ==
    /\ ret.call = "GetPercentile"
    /\ Len(Asked) = 13
    /\ Asked[1] = 1
    /\ DOMAIN ret.val = {0, 90, 99}
    /\ ret.val[0] = 0
    /\ ret.val[90] = 0
    /\ ret.val[99] = 1

\* C21: in the exported JSON a case object carries average_blocked_time,
\* percentile_90 and percentile_99 if and only if its hits are positive: present
\* for every case with a recorded event, events of duration zero included.
C21_PercentilesIffHits ==
    \A k \in DOMAIN doc.goroutines :
        \A c \in DOMAIN doc.goroutines[k].select_case_statistics :
            LET o == doc.goroutines[k].select_case_statistics[c]
            IN  \A t \in OmitEmpty : (t \in DOMAIN o) <=> (o["hits"] > 0)

\* the step at which an exporter writes .internal.json
WritesJson ==
    /\ DoneReturns
    /\ InternalJson \in ExportFiles(FileType, Action)
    /\ files'[InternalJson] = "written"

\* C22: the JSON an exporter writes, parsed with the consumer's schema, gives for
\* every goroutine of the map and every case of its record the hits, the total
\* blocked time, the average, the 90th and the 99th percentile computed from
\* the registry the exporter read.
C22_RoundTrip ==
    [][ WritesJson =>
          \A id \in Goroutines : Stats[id] # Nil =>
              /\ Sprintf(id) \in DOMAIN Unmarshal(doc').Goroutines
              /\ LET parsed == Unmarshal(doc').Goroutines[Sprintf(id)].SelectCaseStats
                 IN  /\ DOMAIN parsed = GetSelectStats(heap[Stats[id]])
                     /\ \A c \in DOMAIN parsed :
                          LET ss == heap[Stats[id]].SelectStats[c]
                          IN  /\ parsed[c].Hits = ss.CaseHits
                              /\ parsed[c].TotalBlockedTime = ss.BlockedCaseTime
                              /\ parsed[c].AvgBlockedTime =
                                     (IF ss.CaseHits > 0
                                      THEN ss.BlockedCaseTime \div ss.CaseHits ELSE 0)
                              /\ parsed[c].Percentile90 = GetPercentile(ss.latencies, 90)
                              /\ parsed[c].Percentile99 = GetPercentile(ss.latencies, 99) ]_vars

\* a written document in which one case lacks the keys of its zero average and
\* percentiles and another case carries them
C22_Witness ==
    /\ mainPc = "returned"
    /\ files[InternalJson] = "written"
    /\ \E k \in DOMAIN doc.goroutines :
         LET cs == doc.goroutines[k].select_case_statistics
         IN  \E c1, c2 \in DOMAIN cs :
                /\ cs[c1]["hits"] > 0
                /\ "average_blocked_time" \notin DOMAIN cs[c1]
                /\ "percentile_99" \in DOMAIN cs[c2]
                /\ cs[c2]["percentile_99"] > 0

\* the total blocked times of the tasks of the map last given to the histogram
HistTotals == {GetTotalSelectBlockedTime(ret.arg[id]) : id \in DOMAIN ret.arg}

\* C23: the histogram counts each task in the first bucket, in ascending order,
\* whose upper bound is at least the task's total blocked time, and in the
\* overflow count when the total exceeds the largest threshold; tasks with totals
\* of 5ms, 30ms and 200ms give the counts 10ms: 1, 50ms: 1, 100ms: 0 and an
\* overflow count of 1.
C23_HistogramPlacement ==
    ret.call = "PrintBlockedTimeHistogram" =>
        /\ \A i \in 1..Len(buckets) :
             ret.val.histogram[buckets[i]] =
                 Cardinality({id \in DOMAIN ret.arg :
                     LET t == GetTotalSelectBlockedTime(ret.arg[id])
                     IN  /\ t <= buckets[i]
                         /\ \A j \in 1..(i - 1) : t > buckets[j]})
        /\ ret.val.overflowCount =
               Cardinality({id \in DOMAIN ret.arg :
                   GetTotalSelectBlockedTime(ret.arg[id]) > buckets[Len(buckets)]})
        /\ (DOMAIN ret.arg = Tasks /\ HistTotals = {5, 30, 200}) =>
               /\ ret.val.histogram[10] = 1
               /\ ret.val.histogram[50] = 1
               /\ ret.val.histogram[100] = 0
               /\ ret.val.overflowCount = 1

\* C24: the efficiency computed for a task whose lifetime is 0 is 1.0: no
\* division by the lifetime, and the task counts as fully efficient.
C24_ZeroLifetimeIsEfficient ==
    ret.call = "ParseJSONToGoroutineStats" =>
        \A g \in ret.val :
            g.Lifetime = 0 => (g.Efficiency.den # 0 /\ g.Efficiency.num = g.Efficiency.den)

\* the entries of the case name c among the statistics given to the bar chart
EntriesOf(c) == {i \in 1..Len(ret.arg[1]) : ret.arg[1][i].CaseName = c}

\* the sum and the maximum of a field over a set of entries
RECURSIVE SumOver(_, _)
SumOver(S, field) ==
    IF S = {} THEN 0
    ELSE LET i == CHOOSE x \in S : TRUE
         IN  ret.arg[1][i][field] + SumOver(S \ {i}, field)

MaxOver(S, field) ==
    CHOOSE m \in {ret.arg[1][i][field] : i \in S} :
        \A i \in S : ret.arg[1][i][field] <= m

\* C25: the bar chart's series has one entry per case name of the statistics,
\* whose hits and total blocked time are the sums and whose P90 and P99 are the
\* maxima over the tasks, and after SortCaseStats the series is in descending
\* order of the selected metric.
C25_AggregateAndSort ==
    ret.call = "printBarChart" =>
        /\ {ret.val[i].CaseName : i \in 1..Len(ret.val)} =
               {c \in Cases : EntriesOf(c) # {}}
        /\ \A i, j \in 1..Len(ret.val) :
               i # j => ret.val[i].CaseName # ret.val[j].CaseName
        /\ \A i \in 1..Len(ret.val) :
             LET S == EntriesOf(ret.val[i].CaseName)
             IN  /\ ret.val[i].Hits = SumOver(S, "Hits")
                 /\ ret.val[i].TotalBlockedTime = SumOver(S, "TotalBlockedTime")
                 /\ ret.val[i].Percentile90 = MaxOver(S, "Percentile90")
                 /\ ret.val[i].Percentile99 = MaxOver(S, "Percentile99")
        /\ ret.arg[2] # UnknownType =>
               \A i, j \in 1..Len(ret.val) :
                   i < j => GetValueForCase(ret.val[i], ret.arg[2])
                                >= GetValueForCase(ret.val[j], ret.arg[2])

\* three tasks' statistics, two of one case with the larger P90 first, whose
\* aggregated series comes out with the second case name in front
C25_Witness ==
    /\ ret.call = "printBarChart"
    /\ ret.arg[2] = Percentile90
    /\ Len(ret.arg[1]) = 3
    /\ Len(ret.val) = 2
    /\ ret.arg[1][1].CaseName = ret.arg[1][2].CaseName
    /\ ret.arg[1][1].Percentile90 > ret.arg[1][2].Percentile90
    /\ ret.val[1].CaseName = ret.arg[1][3].CaseName
    /\ ret.val[1].Percentile90 > ret.val[2].Percentile90
    /\ ret.val[2].Hits > 2

\* C26: the average blocked time the bar chart shows for a case is the case's
\* average over all goroutines: the aggregated total blocked time divided by
\* the aggregated hits.
C26_AverageOfAggregate ==
    ret.call = "printBarChart" =>
        \A i \in 1..Len(ret.val) :
            ret.val[i].Hits > 0 =>
                GetValueForCase(ret.val[i], AverageTime) =
                    ret.val[i].TotalBlockedTime \div ret.val[i].Hits

\* the sum of the durations of the TrackSelectCase calls that returned for the
\* cases S of a task
RECURSIVE SumReturned(_, _)
SumReturned(id, S) ==
    IF S = {} THEN 0
    ELSE LET c == CHOOSE x \in S : TRUE
         IN  returned[id][c].sum + SumReturned(id, S \ {c})

\* C27: for a task with no TrackSelectCase call in progress, the total select
\* blocked time is the sum of all durations recorded for the task over all of
\* its cases, its cases are the recorded ones, and each case's average is its
\* total divided by its hits (a case recorded twice with d: hits 2, total 2d,
\* average d; two cases recorded once with d1 and d2: hits 1 each, total d1 + d2).
C27_TotalIsSumOfDurations ==
    \A id \in Goroutines :
        (Stats[id] # Nil /\ \A c \in Cases : ~InFlight(id, c)) =>
            LET gs == heap[Stats[id]]
            IN  /\ GetTotalSelectBlockedTime(gs) = SumReturned(id, Cases)
                /\ GetSelectStats(gs) = {c \in Cases : returned[id][c].n > 0}
                /\ \A c \in GetSelectStats(gs) :
                     /\ GetCaseHits(gs.SelectStats[c]) = returned[id][c].n
                     /\ GetAverage(gs.SelectStats[c]) =
                            returned[id][c].sum \div returned[id][c].n

\* two cases of one task were recorded once each with a positive duration
C27_Witness ==
    \E id \in Goroutines :
        /\ \A p \in Goroutines : pc[p] = "idle"
        /\ \A c \in Cases : returned[id][c] = [n |-> 1, sum |-> MaxLatency]
        /\ GetSelectStats(heap[Stats[id]]) = Cases
        /\ GetTotalSelectBlockedTime(heap[Stats[id]]) = 2 * MaxLatency

\* the files the readme says Done generates
Documented(ft, a) ==
    IF a \in {Save, PrintAndSave}
    THEN CASE ft = "json" -> {InternalJson}
           [] ft = "text" -> {InternalJson, VisualizationTxt}
           [] OTHER -> {}
    ELSE {}

\* C28: Done writes the documented files.  It touches no file but the
\* documented ones of its FileType and Action (.internal.json for "json";
\* .internal.json and .visualization.txt for "text"; none for Print, for None
\* and for no Action), and when none of its creates and writes fails the
\* documented files are written, all of them.
C28_DocumentedFiles ==
    [][ DoneReturns =>
          /\ \A n \in FileNames \ Documented(FileType, Action) : files'[n] = files[n]
          /\ (\A n \in ExportFiles(FileType, Action) : files'[n] = "written") =>
                 {n \in FileNames : files'[n] = "written"} = Documented(FileType, Action) ]_vars

\* Done has returned from a text export that saved, with both files written
C28_Witness ==
    /\ mainPc = "returned"
    /\ FileType = "text"
    /\ Action = Save
    /\ files = [n \in FileNames |-> "written"]
    /\ doc # NoDocument

\* an AddLatency on the accumulator of (id, c) has appended and not yet returned
AddLatencyRunning(id, c) ==
    \E p \in Goroutines :
        /\ pc[p] \in {"al_time", "al_hits"}
        /\ op[p].id = id
        /\ op[p].caseName = c

\* C29: GetPercentile and AddLatency on one SelectStats are mutually exclusive:
\* no GetPercentile reads an accumulator while an AddLatency on it is between
\* its append and its return.
C29_PercentileExcludesAppend ==
    [][ \A id \in Goroutines, c \in Cases :
          (ret'.call = "GetPercentile" /\ ret' # ret /\ ret'.arg = <<id, c>>) =>
              ~AddLatencyRunning(id, c) ]_vars

\* C30: GetPercentile computes on a private copy: a call, for any percent,
\* leaves the stored latency sequence of every accumulator (its elements and
\* their order), its hits and its total as they were.
C30_PercentileLeavesAccumulator ==
    [][ ret'.call = "GetPercentile" =>
          /\ Stats' = Stats
          /\ \A id \in Goroutines, c \in Cases :
               /\ heap'[id].SelectStats[c].latencies = heap[id].SelectStats[c].latencies
               /\ heap'[id].SelectStats[c].CaseHits = heap[id].SelectStats[c].CaseHits
               /\ heap'[id].SelectStats[c].BlockedCaseTime =
                      heap[id].SelectStats[c].BlockedCaseTime ]_vars

\* a percentile was returned for a list that is stored out of order, and the
\* list is still stored out of order
C30_Witness ==
    /\ ret.call = "GetPercentile"
    /\ ret.arg = <<1, "case1">>
    /\ 50 \in DOMAIN ret.val
    /\ Len(Acc(1, "case1").latencies) = 3
    /\ Acc(1, "case1").latencies[1] > Acc(1, "case1").latencies[3]
    /\ ret.val[50] = Acc(1, "case1").latencies[2]
    /\ Acc(1, "case1").CaseHits = 3

\* C31: no reader observes a case accumulator with no hit: whatever accumulator
\* the owner reads through the map GetAllStats returned has CaseHits >= 1, so
\* that GetAverage (total / hits) does not divide by zero.
C31_NoEmptyAccumulatorSeen == obs.seen => obs.CaseHits >= 1

\* the id and the case a goroutine's call in progress was given
Target(p) == IF pc[p] = "idle" THEN op'[p] ELSE op[p]

\* C32: isolation.  Every step of a TrackSelectCase(c, d, A) leaves the records
\* of every other task B and A's other cases as they were, and the times of a
\* record A that existed; every step of a TrackGoroutineEnd(A) leaves the
\* records of every other task as they were and changes nothing of A's record
\* but its EndTime.
C32_Isolation ==
    [][ \A p \in Goroutines, A \in Goroutines :
          (pc'[p] # pc[p] /\ Target(p).id = A) =>
            /\ ({pc[p], pc'[p]} \cap {"al_append", "al_time", "al_hits"} # {}) =>
                 /\ \A B \in Goroutines \ {A} :
                        Stats'[B] = Stats[B] /\ heap'[B] = heap[B]
                 /\ \A c \in Cases :
                        Target(p).caseName # c => Acc(A, c)' = Acc(A, c)
                 /\ Stats[A] # Nil =>
                        /\ Stats'[A] = Stats[A]
                        /\ Deref(Stats[A])'.StartTime = Deref(Stats[A]).StartTime
                        /\ Deref(Stats[A])'.EndTime = Deref(Stats[A]).EndTime
            /\ ("end_cs" \in {pc[p], pc'[p]}) =>
                 /\ Stats' = Stats
                 /\ \A B \in Goroutines \ {A} : heap'[B] = heap[B]
                 /\ heap'[A] = [heap[A] EXCEPT !.EndTime = heap'[A].EndTime] ]_vars

\* two tasks each have a case recorded, the second recorded after the first
C32_Witness ==
    /\ \A p \in Goroutines : pc[p] = "idle"
    /\ Acc(1, "case1").CaseHits = 1
    /\ Acc(2, "case2").CaseHits = 1
    /\ ~Acc(1, "case2").present
    /\ ~Acc(2, "case1").present
    /\ returned[1]["case1"].sum # returned[2]["case2"].sum

\* C33: every registry operation completes: under fair scheduling a goroutine
\* that is inside a TrackGoroutineStart, TrackSelectCase or TrackGoroutineEnd
\* call eventually returns from it, whatever the other goroutines do.
C33_EveryCallReturns ==
    \A p \in Goroutines : (pc[p] # "idle") ~> (pc[p] = "idle")

\* C34: every record whose EndTime is set has EndTime >= StartTime, and its
\* GetGoroutineLifetime is not negative, in whatever order TrackGoroutineStart,
\* TrackSelectCase and TrackGoroutineEnd were called on its id.
C34_EndNotBeforeStart ==
    \A id \in Goroutines :
        (Stats[id] # Nil /\ heap[Stats[id]].EndTime # 0) =>
            /\ heap[Stats[id]].EndTime >= heap[Stats[id]].StartTime
            /\ GetGoroutineLifetime(heap[Stats[id]]) >= 0

\* a task with a recorded case has ended, at a clock reading later than the one
\* at which its record was created, and every call has returned
C34_Witness ==
    \E b \in Goroutines :
        /\ ~panicked
        /\ \A p \in Goroutines : pc[p] = "idle"
        /\ Stats[b] # Nil
        /\ Acc(b, "case1").CaseHits = 1
        /\ heap[Stats[b]].EndTime > heap[Stats[b]].StartTime
        /\ GetGoroutineLifetime(heap[Stats[b]]) > 0

\* C35: histogram conservation: every task of the map is counted exactly once,
\* so no count is negative and the bucket counts and the overflow count add up
\* to the number of tasks, in the printed histogram and in the graph.
C35_HistogramConservation ==
    ret.call \in {"PrintBlockedTimeHistogram", "WriteBlockedTimeHistogramDot"} =>
        /\ \A b \in DOMAIN ret.val.histogram : ret.val.histogram[b] >= 0
        /\ ret.val.overflowCount >= 0
        /\ SumSeq([i \in 1..Len(buckets) |-> ret.val.histogram[buckets[i]]])
               + ret.val.overflowCount = Cardinality(DOMAIN ret.arg)

\* three tasks went to the graph: one on a threshold, one between two
\* thresholds, one beyond the last
C35_Witness ==
    /\ ret.call = "WriteBlockedTimeHistogramDot"
    /\ DOMAIN ret.arg = Tasks
    /\ HistTotals = {10, 30, 20000}
    /\ ret.val.histogram[10] = 1
    /\ ret.val.histogram[50] = 1
    /\ ret.val.overflowCount = 1

====
